---- MODULE Spec2Model ----
(***************************************************************************)
(* Model of the two example orchestrators of the agentic data platform:    *)
(*   examples/cost-optimization/weekly_review.py   (WeeklyCostReviewer)    *)
(*   examples/quickstart/autonomous_pipeline_creation.py                   *)
(*                                          (AutonomousPipelineCreator)    *)
(* Each coroutine is a sequential process; its position is a pc variable.  *)
(* External collaborators (agents, notification transports) are modelled   *)
(* by the outcomes they can produce: a result mapping or a raised error.   *)
(* An optional Python value (None or a value) is a set: {} or {v}.         *)
(***************************************************************************)
EXTENDS Integers, Sequences, FiniteSets, TLC

VARIABLES
    \* ---- both entry points ----
    environment,          \* config.environment
    exit_code,            \* {} while running, {0} or {1} after the exit
    error_logged,         \* logger.error was called by main's handler
    \* ---- weekly_review.py ----
    pc,                   \* position in main / run_weekly_review
    dry_run,              \* args.dry_run
    auto_approve_nonprod, \* args.auto_approve
    spend_analysis,       \* result of _analyze_spend ({} before)
    opportunities,        \* result of cost_agent.find_opportunities()
    categorized,          \* result of _categorize_opportunities
    low_idx,              \* loop position in categorized["low_risk"]
    applied_count, pending_count, skipped_count, actual_savings,
    results,              \* the results mapping of step 4 ({} before)
    report,               \* the report mapping ({} before)
    apply_calls,          \* opportunities handed to apply_optimization, in order
    outcome,              \* per opportunity id: the counter branch taken
    slack_sent, email_sent,   \* number of notification calls made
    calls,                \* collaborator calls and report builds, in order
    \* ---- autonomous_pipeline_creation.py ----
    ppc,                  \* position in main / create_pipeline
    source, destination, schedule,   \* the intent (character sequences)
    quality_checks, cost_optimize,   \* the feature toggles
    requirements,         \* result of _analyze_requirements ({} before)
    infra_result, pipeline_result, quality_result,
    deployment_result, monitoring_result, cost_result,
    dispatched,           \* tasks handed to supervisor.execute_task, in order
    responses,            \* per dispatched task: "pending", "ok" or "raise"
    ret,                  \* the mapping create_pipeline returned ({} before)
    (* A helper of the pipeline creator called on its own *)
    fn_input,             \* [fn, arg]: the helper and its argument
    fn_output             \* {} before the call, {value} once it returned

commonVars == <<environment, exit_code, error_logged>>

costVars == <<pc, dry_run, auto_approve_nonprod, spend_analysis,
              opportunities, categorized, low_idx, applied_count,
              pending_count, skipped_count, actual_savings, results, report,
              apply_calls, outcome, slack_sent, email_sent, calls>>

pipeVars == <<ppc, source, destination, schedule, quality_checks,
              cost_optimize, requirements, infra_result, pipeline_result,
              quality_result, deployment_result, monitoring_result,
              cost_result, dispatched, responses, ret>>

helperVars == <<fn_input, fn_output>>

vars == <<commonVars, costVars, pipeVars, helperVars>>

----------------------------------------------------------------------------
(* Bounds of the model *)
MaxOpps == 3          \* longest opportunity list find_opportunities returns
MaxDrivers == 6       \* longest cost_breakdown analyze_spend returns

(* Program constants *)
TopDrivers == 5               \* the [:5] slice of the cost-driver list
EmailThreshold == 1000        \* total_potential_savings > 1000 sends the email

Environments == {"dev", "staging", "prod"}
RiskLevels == {"low", "medium", "high", "unknown"}
SavingsValues == {300, 700}
TotalCosts == {0, 2000}

Min(a, b) == IF a < b THEN a ELSE b
Range(s) == {s[i] : i \in DOMAIN s}
TheValue(opt) == CHOOSE v \in opt : TRUE

RECURSIVE SumSavings(_)
SumSavings(opps) ==
    IF opps = <<>> THEN 0
    ELSE opps[1].monthly_savings + SumSavings(Tail(opps))

(* The opportunity lists the discovery collaborator can return.  The id    *)
(* field stands for the identity of the dict object.                       *)
OpportunityLists ==
    UNION {
        { [i \in 1..n |-> [id |-> i,
                           risk_level |-> f[i][1],
                           monthly_savings |-> f[i][2]]] :
          f \in [1..n -> RiskLevels \X SavingsValues] }
        : n \in 0..MaxOpps }

(* The results cost_agent.apply_optimization can produce. *)
ApplyResults ==
    { [kind |-> "ok",    success |-> TRUE,  has_error |-> FALSE],
      [kind |-> "ok",    success |-> FALSE, has_error |-> TRUE],
      [kind |-> "ok",    success |-> FALSE, has_error |-> FALSE],
      [kind |-> "raise", success |-> FALSE, has_error |-> FALSE] }

----------------------------------------------------------------------------
(* _categorize_opportunities *)
RiskBucket_UnknownIsLow(risk_level) ==
    IF risk_level = "medium" THEN "medium_risk"
    ELSE IF risk_level = "high" THEN "high_risk"
    ELSE "low_risk"

RiskBucket(risk_level) ==
    IF risk_level = "low" THEN "low_risk"
    ELSE IF risk_level = "medium" THEN "medium_risk"
    ELSE "high_risk"

EmptyCategorized == [low_risk |-> <<>>, medium_risk |-> <<>>, high_risk |-> <<>>]

RECURSIVE CategorizeLoop_IfIf(_, _)
CategorizeLoop_IfIf(opps, acc) ==
    IF opps = <<>> THEN acc
    ELSE LET opp == Head(opps)
             acc1 == IF opp.risk_level = "low"
                     THEN [acc EXCEPT !.low_risk = Append(@, opp)] ELSE acc
             acc2 == IF opp.risk_level = "medium"
                     THEN [acc1 EXCEPT !.medium_risk = Append(@, opp)]
                     ELSE [acc1 EXCEPT !.high_risk = Append(@, opp)]
         IN CategorizeLoop_IfIf(Tail(opps), acc2)

RECURSIVE CategorizeLoop_Prepend(_, _)
CategorizeLoop_Prepend(opps, acc) ==
    IF opps = <<>> THEN acc
    ELSE LET opp == Head(opps)
             b == RiskBucket(opp.risk_level)
         IN CategorizeLoop_Prepend(Tail(opps),
                                   [acc EXCEPT ![b] = <<opp>> \o @])

RECURSIVE CategorizeLoop(_, _)
CategorizeLoop(opps, acc) ==
    IF opps = <<>> THEN acc
    ELSE LET opp == Head(opps)
             b == RiskBucket(opp.risk_level)
         IN CategorizeLoop(Tail(opps), [acc EXCEPT ![b] = Append(@, opp)])

CategorizeOpportunities(opps) == CategorizeLoop(opps, EmptyCategorized)

(* The guard of the low-risk branch of _execute_optimizations, line 179 *)
ShouldApply_FlagOnly(env, auto_approve) == auto_approve

ShouldApply(env, auto_approve) == env # "prod" /\ auto_approve

(* pending_count after the medium-risk and high-risk loops, lines 194-202 *)
PendingTotal_MediumOnly(pending, cat) == pending + Len(cat.medium_risk)

PendingTotal(pending, cat) ==
    pending + Len(cat.medium_risk) + Len(cat.high_risk)

(* The test of step 4, line 94 *)
ExecutesStep4_Always(dry) == TRUE

ExecutesStep4(dry) == ~dry


(* _generate_report: the division of line 222 is defined only for a        *)
(* non-zero baseline; Python raises ZeroDivisionError otherwise.  The      *)
(* baselines and savings of this model make the quotient exact.            *)
ReportRaises(spend) == spend.total_monthly_cost = 0

SavingsPercentage(total_potential_savings, total_monthly_cost) ==
    (total_potential_savings * 100) \div total_monthly_cost

TopSlice(drivers) == SubSeq(drivers, 1, Min(TopDrivers, Len(drivers)))

GenerateReport(spend, opps, cat, res, dry) ==
    LET total_potential_savings == SumSavings(opps)
    IN [environment |-> environment,
        dry_run |-> dry,
        spend_summary |->
            [total_monthly_cost |-> spend.total_monthly_cost,
             top_cost_drivers |-> TopSlice(spend.top_cost_drivers)],
        optimization_summary |->
            [opportunities_found |-> Len(opps),
             total_potential_savings |-> total_potential_savings,
             savings_percentage |->
                 SavingsPercentage(total_potential_savings,
                                   spend.total_monthly_cost),
             low_risk_count |-> Len(cat.low_risk),
             medium_risk_count |-> Len(cat.medium_risk),
             high_risk_count |-> Len(cat.high_risk)],
        actions_taken |->
            [applied_count |-> res.applied_count,
             pending_count |-> res.pending_count,
             skipped_count |-> res.skipped_count,
             actual_savings |-> res.actual_savings],
        opportunities |-> opps]

(* The results mapping of the dry-run branch of step 4 (line 107) *)
DryRunResults ==
    [applied_count |-> 0, pending_count |-> 0, skipped_count |-> 0,
     actual_savings |-> 0]

(* _send_notifications: the guard of the email *)
ShouldEmail_AtThreshold(rep) ==
    rep.optimization_summary.total_potential_savings >= EmailThreshold

ShouldEmail(rep) ==
    rep.optimization_summary.total_potential_savings > EmailThreshold

----------------------------------------------------------------------------
(* weekly_review.py: main and run_weekly_review *)

(* The state of WeeklyCostReviewer before run_weekly_review has run *)
CostReset ==
    /\ spend_analysis = {}
    /\ opportunities = <<>>
    /\ categorized = EmptyCategorized
    /\ low_idx = 1
    /\ applied_count = 0
    /\ pending_count = 0
    /\ skipped_count = 0
    /\ actual_savings = 0
    /\ results = {}
    /\ report = {}
    /\ apply_calls = <<>>
    /\ outcome = <<>>
    /\ slack_sent = 0
    /\ email_sent = 0
    /\ calls = <<>>

(* A collaborator was called (or the report built) and returned or raised *)
Log(op, ok) == calls' = Append(calls, [op |-> op, ok |-> ok])

(* An error raised by analyze_spend or find_opportunities is not caught in *)
(* run_weekly_review: it unwinds to the handler of main.                   *)
AfterAgentFailure_DiscoveryTolerated(op) ==
    IF op = "find_opportunities" THEN "step4" ELSE "raised"

AfterAgentFailure(op) == "raised"

(* actual_savings += opp["monthly_savings"], line 183 *)
AddSavings_Overwrite(total, opp) == opp.monthly_savings

AddSavings(total, opp) == total + opp.monthly_savings

(* An exception that leaves main outside its try block: the interpreter    *)
(* prints the traceback and exits 1; logger.error is not called.           *)
Uncaught ==
    /\ exit_code' = {1}
    /\ UNCHANGED error_logged

(* main, lines 355-359: configuration loading, WeeklyCostReviewer(config) *)
LoadConfig ==
    /\ pc = "load_config"
    /\ \/ pc' = "analyze_spend" /\ UNCHANGED <<exit_code, error_logged>>
       \/ pc' = "exited" /\ Uncaught
    /\ UNCHANGED <<environment, dry_run, auto_approve_nonprod, spend_analysis,
                   opportunities, categorized, low_idx, applied_count,
                   pending_count, skipped_count, actual_savings, results,
                   report, apply_calls, outcome, slack_sent, email_sent>>
    /\ UNCHANGED calls
    /\ UNCHANGED pipeVars
    /\ UNCHANGED helperVars

(* Step 1, lines 59-67 and _analyze_spend *)
AnalyzeSpend ==
    /\ pc = "analyze_spend"
    /\ \/ \E cost \in TotalCosts, n \in {TopDrivers - 1, MaxDrivers} :
            /\ spend_analysis' =
                   {[total_monthly_cost |-> cost,
                     top_cost_drivers |-> [i \in 1..n |-> i]]}
            /\ Log("analyze_spend", TRUE)
            /\ pc' = "find_opportunities"
       \/ /\ pc' = AfterAgentFailure("analyze_spend")
          /\ Log("analyze_spend", FALSE)
          /\ UNCHANGED spend_analysis
    /\ UNCHANGED <<environment, dry_run, auto_approve_nonprod,
                   opportunities, categorized, low_idx, applied_count,
                   pending_count, skipped_count, actual_savings, results,
                   report, apply_calls, outcome, slack_sent, email_sent,
                   exit_code, error_logged>>
    /\ UNCHANGED pipeVars
    /\ UNCHANGED helperVars

(* Steps 2 and 3, lines 69-91 *)
FindOpportunities ==
    /\ pc = "find_opportunities"
    /\ \/ \E opps \in OpportunityLists :
            /\ opportunities' = opps
            /\ categorized' = CategorizeOpportunities(opps)
            /\ outcome' = [i \in 1..Len(opps) |-> "none"]
            /\ Log("find_opportunities", TRUE)
            /\ pc' = "step4"
       \/ /\ pc' = AfterAgentFailure("find_opportunities")
          /\ Log("find_opportunities", FALSE)
          /\ UNCHANGED <<opportunities, categorized, outcome>>
    /\ UNCHANGED <<environment, dry_run, auto_approve_nonprod, spend_analysis,
                   low_idx, applied_count, pending_count, skipped_count,
                   actual_savings, results, report, apply_calls, slack_sent,
                   email_sent, exit_code, error_logged>>
    /\ UNCHANGED pipeVars
    /\ UNCHANGED helperVars

(* Step 4, lines 93-107: the dry-run branch *)
SkipExecution ==
    /\ pc = "step4"
    /\ ~ExecutesStep4(dry_run)
    /\ results' = {DryRunResults}
    /\ pc' = "generate_report"
    /\ UNCHANGED <<environment, dry_run, auto_approve_nonprod, spend_analysis,
                   opportunities, categorized, low_idx, applied_count,
                   pending_count, skipped_count, actual_savings, report,
                   apply_calls, outcome, slack_sent, email_sent, exit_code,
                   error_logged>>
    /\ UNCHANGED calls
    /\ UNCHANGED pipeVars
    /\ UNCHANGED helperVars

(* Step 4: entering _execute_optimizations, lines 171-177 *)
EnterExecute ==
    /\ pc = "step4"
    /\ ExecutesStep4(dry_run)
    /\ applied_count' = 0
    /\ pending_count' = 0
    /\ skipped_count' = 0
    /\ actual_savings' = 0
    /\ low_idx' = 1
    /\ pc' = "low_risk_loop"
    /\ UNCHANGED <<environment, dry_run, auto_approve_nonprod, spend_analysis,
                   opportunities, categorized, results, report, apply_calls,
                   outcome, slack_sent, email_sent, exit_code, error_logged>>
    /\ UNCHANGED calls
    /\ UNCHANGED pipeVars
    /\ UNCHANGED helperVars

(* One iteration of the low-risk loop, lines 178-190 *)
LowRiskIteration ==
    /\ pc = "low_risk_loop"
    /\ low_idx <= Len(categorized.low_risk)
    /\ LET opp == categorized.low_risk[low_idx] IN
       IF ShouldApply(environment, auto_approve_nonprod)
       THEN /\ apply_calls' = Append(apply_calls, opp)
            /\ \E result \in ApplyResults :
                 /\ Log("apply_optimization", result.kind # "raise")
                 /\ IF result.kind = "raise"
                    THEN \* the await raises: nothing catches it in this method
                         /\ pc' = "raised"
                         /\ UNCHANGED <<applied_count, skipped_count,
                                        actual_savings, outcome, low_idx>>
                    ELSE IF result.success
                    THEN /\ applied_count' = applied_count + 1
                         /\ actual_savings' = AddSavings(actual_savings, opp)
                         /\ outcome' = [outcome EXCEPT ![opp.id] = "applied"]
                         /\ low_idx' = low_idx + 1
                         /\ pc' = pc
                         /\ UNCHANGED skipped_count
                    ELSE /\ skipped_count' = skipped_count + 1
                         /\ outcome' = [outcome EXCEPT ![opp.id] = "skipped"]
                         /\ UNCHANGED <<applied_count, actual_savings>>
                         /\ IF result.has_error
                            THEN low_idx' = low_idx + 1 /\ pc' = pc
                            ELSE \* result['error'] of line 187: KeyError
                                 pc' = "raised" /\ UNCHANGED low_idx
            /\ UNCHANGED pending_count
       ELSE /\ pending_count' = pending_count + 1
            /\ outcome' = [outcome EXCEPT ![opp.id] = "pending"]
            /\ low_idx' = low_idx + 1
            /\ pc' = pc
            /\ UNCHANGED <<applied_count, skipped_count, actual_savings,
                           apply_calls, calls>>
    /\ UNCHANGED <<environment, dry_run, auto_approve_nonprod, spend_analysis,
                   opportunities, categorized, results, report, slack_sent,
                   email_sent, exit_code, error_logged>>
    /\ UNCHANGED pipeVars
    /\ UNCHANGED helperVars

(* The medium-risk and high-risk loops and the return, lines 192-209 *)
PendingBuckets ==
    /\ pc = "low_risk_loop"
    /\ low_idx > Len(categorized.low_risk)
    /\ LET held == Range(categorized.medium_risk) \cup Range(categorized.high_risk)
           total == PendingTotal(pending_count, categorized)
       IN /\ pending_count' = total
          /\ outcome' = [i \in DOMAIN outcome |->
                            IF \E opp \in held : opp.id = i
                            THEN "pending" ELSE outcome[i]]
          /\ results' = {[applied_count |-> applied_count,
                          pending_count |-> total,
                          skipped_count |-> skipped_count,
                          actual_savings |-> actual_savings]}
    /\ pc' = "generate_report"
    /\ UNCHANGED <<environment, dry_run, auto_approve_nonprod, spend_analysis,
                   opportunities, categorized, low_idx, applied_count,
                   skipped_count, actual_savings, report, apply_calls,
                   slack_sent, email_sent, exit_code, error_logged>>
    /\ UNCHANGED calls
    /\ UNCHANGED pipeVars
    /\ UNCHANGED helperVars

(* Step 5, lines 109-117 and _generate_report *)
BuildReport ==
    /\ pc = "generate_report"
    /\ IF ReportRaises(TheValue(spend_analysis))
       THEN /\ pc' = "raised"
            /\ Log("generate_report", FALSE)
            /\ UNCHANGED report
       ELSE /\ Log("generate_report", TRUE)
            /\ report' = {GenerateReport(TheValue(spend_analysis),
                                         opportunities, categorized,
                                         TheValue(results), dry_run)}
            /\ pc' = "send_slack"
    /\ UNCHANGED <<environment, dry_run, auto_approve_nonprod, spend_analysis,
                   opportunities, categorized, low_idx, applied_count,
                   pending_count, skipped_count, actual_savings, results,
                   apply_calls, outcome, slack_sent, email_sent, exit_code,
                   error_logged>>
    /\ UNCHANGED pipeVars
    /\ UNCHANGED helperVars

(* _send_notifications, lines 255-257: the chat notification *)
SendSlack ==
    /\ pc = "send_slack"
    /\ slack_sent' = slack_sent + 1
    /\ \/ /\ pc' = IF ShouldEmail(TheValue(report))
                   THEN "send_email" ELSE "return"
          /\ Log("send_slack_notification", TRUE)
       \/ /\ pc' = "raised"
          /\ Log("send_slack_notification", FALSE)
    /\ UNCHANGED <<environment, dry_run, auto_approve_nonprod, spend_analysis,
                   opportunities, categorized, low_idx, applied_count,
                   pending_count, skipped_count, actual_savings, results,
                   report, apply_calls, outcome, email_sent, exit_code,
                   error_logged>>
    /\ UNCHANGED pipeVars
    /\ UNCHANGED helperVars

(* _send_notifications, lines 259-266: the email *)
SendEmail ==
    /\ pc = "send_email"
    /\ email_sent' = email_sent + 1
    /\ \/ pc' = "return" /\ Log("send_email", TRUE)
       \/ pc' = "raised" /\ Log("send_email", FALSE)
    /\ UNCHANGED <<environment, dry_run, auto_approve_nonprod, spend_analysis,
                   opportunities, categorized, low_idx, applied_count,
                   pending_count, skipped_count, actual_savings, results,
                   report, apply_calls, outcome, slack_sent, exit_code,
                   error_logged>>
    /\ UNCHANGED pipeVars
    /\ UNCHANGED helperVars

(* main, lines 363-368: run_weekly_review returned, sys.exit(0) *)
ExitSuccess ==
    /\ pc = "return"
    /\ exit_code' = {0}
    /\ pc' = "exited"
    /\ UNCHANGED <<environment, dry_run, auto_approve_nonprod, spend_analysis,
                   opportunities, categorized, low_idx, applied_count,
                   pending_count, skipped_count, actual_savings, results,
                   report, apply_calls, outcome, slack_sent, email_sent,
                   error_logged>>
    /\ UNCHANGED calls
    /\ UNCHANGED pipeVars
    /\ UNCHANGED helperVars

(* main, lines 370-372: the handler of the try block *)
ExitFailure ==
    /\ pc = "raised"
    /\ error_logged' = TRUE
    /\ exit_code' = {1}
    /\ pc' = "exited"
    /\ UNCHANGED <<environment, dry_run, auto_approve_nonprod, spend_analysis,
                   opportunities, categorized, low_idx, applied_count,
                   pending_count, skipped_count, actual_savings, results,
                   report, apply_calls, outcome, slack_sent, email_sent>>
    /\ UNCHANGED calls
    /\ UNCHANGED pipeVars
    /\ UNCHANGED helperVars

----------------------------------------------------------------------------
(* autonomous_pipeline_creation.py                                         *)
(* A string whose characters the code inspects (split, lower, substring    *)
(* test, dictionary key) is a sequence of one-character strings.           *)

UpperCase ==
    <<"A", "B", "C", "D", "E", "F", "G", "H", "I", "J", "K", "L", "M",
      "N", "O", "P", "Q", "R", "S", "T", "U", "V", "W", "X", "Y", "Z">>
LowerCase ==
    <<"a", "b", "c", "d", "e", "f", "g", "h", "i", "j", "k", "l", "m",
      "n", "o", "p", "q", "r", "s", "t", "u", "v", "w", "x", "y", "z">>

(* str.lower *)
LowerChar(c) ==
    IF \E i \in DOMAIN UpperCase : UpperCase[i] = c
    THEN LowerCase[CHOOSE i \in DOMAIN UpperCase : UpperCase[i] = c]
    ELSE c
Lower(s) == [i \in DOMAIN s |-> LowerChar(s[i])]

(* key in text *)
Contains(sub, text) ==
    \E i \in 0..(Len(text) - Len(sub)) : SubSeq(text, i + 1, i + Len(sub)) = sub

(* text.split(".")[0] *)
FirstPart(text) ==
    LET dots == {i \in DOMAIN text : text[i] = "."}
    IN IF dots = {} THEN text
       ELSE SubSeq(text, 1, (CHOOSE i \in dots : \A j \in dots : i <= j) - 1)

(* The keys of the three mappings and the schedule values *)
Key_sqlserver ==
    <<"s", "q", "l", "s", "e", "r", "v", "e", "r">>
Key_postgres ==
    <<"p", "o", "s", "t", "g", "r", "e", "s">>
Key_mysql ==
    <<"m", "y", "s", "q", "l">>
Key_oracle ==
    <<"o", "r", "a", "c", "l", "e">>
Key_cosmosdb ==
    <<"c", "o", "s", "m", "o", "s", "d", "b">>
Key_blob ==
    <<"b", "l", "o", "b">>
Key_adls ==
    <<"a", "d", "l", "s">>
Key_api ==
    <<"a", "p", "i">>
Key_datalake ==
    <<"d", "a", "t", "a", "l", "a", "k", "e">>
Key_synapse ==
    <<"s", "y", "n", "a", "p", "s", "e">>
Key_databricks ==
    <<"d", "a", "t", "a", "b", "r", "i", "c", "k", "s">>
Key_cosmos ==
    <<"c", "o", "s", "m", "o", "s">>
Key_sql ==
    <<"s", "q", "l">>
Key_hourly ==
    <<"h", "o", "u", "r", "l", "y">>
Key_daily ==
    <<"d", "a", "i", "l", "y">>
Key_daily_2am ==
    <<"d", "a", "i", "l", "y", "-", "2", "a", "m">>
Key_weekly ==
    <<"w", "e", "e", "k", "l", "y">>
Key_monthly ==
    <<"m", "o", "n", "t", "h", "l", "y">>
Cron_hourly ==
    <<"0", " ", "*", " ", "*", " ", "*", " ", "*">>
Cron_daily ==
    <<"0", " ", "2", " ", "*", " ", "*", " ", "*">>
Cron_weekly ==
    <<"0", " ", "2", " ", "*", " ", "*", " ", "0">>
Cron_monthly ==
    <<"0", " ", "2", " ", "1", " ", "*", " ", "*">>

(* _detect_source_type: source_mapping in insertion order *)
SourceMapping ==
    << <<Key_sqlserver, "sqlserver">>, <<Key_postgres, "postgresql">>,
       <<Key_mysql, "mysql">>, <<Key_oracle, "oracle">>,
       <<Key_cosmosdb, "cosmosdb">>, <<Key_blob, "blob_storage">>,
       <<Key_adls, "data_lake">>, <<Key_api, "rest_api">> >>

(* _detect_destination_type: dest_mapping in insertion order *)
DestMapping ==
    << <<Key_datalake, "data_lake">>, <<Key_synapse, "synapse">>,
       <<Key_databricks, "databricks">>, <<Key_cosmos, "cosmosdb">>,
       <<Key_sql, "sql_database">> >>

(* for key, value in mapping.items(): if key in text: return value *)
RECURSIVE FirstMatch(_, _, _, _)
FirstMatch(mapping, i, text, default) ==
    IF i > Len(mapping) THEN default
    ELSE IF Contains(mapping[i][1], text) THEN mapping[i][2]
    ELSE FirstMatch(mapping, i + 1, text, default)

DetectSourceType(source_prefix) ==
    FirstMatch(SourceMapping, 1, Lower(source_prefix), "unknown")

DetectDestinationType(dest_prefix) ==
    FirstMatch(DestMapping, 1, Lower(dest_prefix), "data_lake")

(* _parse_schedule *)
ScheduleMapping ==
    << <<Key_hourly, Cron_hourly>>, <<Key_daily, Cron_daily>>,
       <<Key_daily_2am, Cron_daily>>, <<Key_weekly, Cron_weekly>>,
       <<Key_monthly, Cron_monthly>> >>

ParseSchedule_CaseSensitive(sched) ==
    LET hits == {i \in DOMAIN ScheduleMapping : ScheduleMapping[i][1] = sched}
    IN IF hits = {} THEN sched
       ELSE ScheduleMapping[CHOOSE i \in hits : TRUE][2]

ParseSchedule(sched) ==
    LET key == Lower(sched)
        hits == {i \in DOMAIN ScheduleMapping : ScheduleMapping[i][1] = key}
    IN IF hits = {} THEN sched
       ELSE ScheduleMapping[CHOOSE i \in hits : TRUE][2]

(* The relational sources of lines 239 and 320 *)
RelationalSources == {"sqlserver", "postgresql", "mysql"}

DetermineResources_RuntimeFirst(source_type, destination_type) ==
    LET base == <<"data_factory", "storage_account">>
        withRuntime ==
            IF source_type \in RelationalSources
            THEN Append(base, "integration_runtime")
            ELSE base
    IN IF destination_type = "synapse"
       THEN Append(withRuntime, "synapse_workspace")
       ELSE IF destination_type = "databricks"
       THEN Append(withRuntime, "databricks_workspace")
       ELSE withRuntime

(* _determine_resources *)
DetermineResources(source_type, destination_type) ==
    LET base == <<"data_factory", "storage_account">>
        withWorkspace ==
            IF destination_type = "synapse"
            THEN Append(base, "synapse_workspace")
            ELSE IF destination_type = "databricks"
            THEN Append(base, "databricks_workspace")
            ELSE base
    IN IF source_type \in RelationalSources
       THEN Append(withWorkspace, "integration_runtime")
       ELSE withWorkspace

LoadMode_AllKnownKinds(source_type) ==
    IF source_type # "unknown" THEN "incremental" ELSE "full"

(* _analyze_requirements, line 239 *)
LoadMode(source_type) ==
    IF source_type \in RelationalSources THEN "incremental" ELSE "full"

(* _analyze_requirements, lines 254-267; watermark is {} for None *)
BuildRequirements(src, dst, sched, watermark) ==
    LET source_type == DetectSourceType(FirstPart(src))
        destination_type == DetectDestinationType(FirstPart(dst))
    IN [source_type |-> source_type,
        destination_type |-> destination_type,
        load_mode |-> LoadMode(source_type),
        watermark_column |-> watermark,
        schedule_expression |-> ParseSchedule(sched),
        required_resources |-> DetermineResources(source_type, destination_type)]

(* The intents of the model *)
\* "sqlserver-prod.dbo.sales"
Src_sqlserver ==
    <<"s", "q", "l", "s", "e", "r", "v", "e", "r", "-", "p", "r", "o", "d",
      ".", "d", "b", "o", ".", "s", "a", "l", "e", "s">>
\* "mysql-oracle.orders"
Src_mysql_oracle ==
    <<"m", "y", "s", "q", "l", "-", "o", "r", "a", "c", "l", "e", ".", "o",
      "r", "d", "e", "r", "s">>
\* "Postgres-DW.events"
Src_Postgres ==
    <<"P", "o", "s", "t", "g", "r", "e", "s", "-", "D", "W", ".", "e", "v",
      "e", "n", "t", "s">>
\* "blob-landing.files"
Src_blob ==
    <<"b", "l", "o", "b", "-", "l", "a", "n", "d", "i", "n", "g", ".", "f",
      "i", "l", "e", "s">>
\* "ftp-drop.files"
Src_ftp ==
    <<"f", "t", "p", "-", "d", "r", "o", "p", ".", "f", "i", "l", "e", "s">>
\* "datalake-bronze.sales"
Dst_datalake ==
    <<"d", "a", "t", "a", "l", "a", "k", "e", "-", "b", "r", "o", "n", "z",
      "e", ".", "s", "a", "l", "e", "s">>
\* "databricks-datalake.gold"
Dst_databricks_datalake ==
    <<"d", "a", "t", "a", "b", "r", "i", "c", "k", "s", "-", "d", "a", "t",
      "a", "l", "a", "k", "e", ".", "g", "o", "l", "d">>
\* "synapse-dw.sales"
Dst_synapse ==
    <<"s", "y", "n", "a", "p", "s", "e", "-", "d", "w", ".", "s", "a", "l",
      "e", "s">>
\* "Databricks.ml"
Dst_Databricks ==
    <<"D", "a", "t", "a", "b", "r", "i", "c", "k", "s", ".", "m", "l">>
\* "warehouse.out"
Dst_warehouse ==
    <<"w", "a", "r", "e", "h", "o", "u", "s", "e", ".", "o", "u", "t">>
\* "daily-2am"
Sched_daily_2am ==
    <<"d", "a", "i", "l", "y", "-", "2", "a", "m">>
\* "Hourly"
Sched_Hourly ==
    <<"H", "o", "u", "r", "l", "y">>
\* "*/15 * * * *"
Sched_cron ==
    <<"*", "/", "1", "5", " ", "*", " ", "*", " ", "*", " ", "*">>
Sources == {Src_sqlserver, Src_mysql_oracle, Src_Postgres, Src_blob, Src_ftp}
Destinations ==
    {Dst_datalake,
     Dst_databricks_datalake,
     Dst_synapse,
     Dst_Databricks,
     Dst_warehouse}
Schedules == {Sched_daily_2am, Sched_Hourly, Sched_cron}

(* The identifiers and result mappings the agents can return.  A key the   *)
(* result lacks has the value {}.                                          *)
DataFactoryIds == {"df-1", "df-2"}
PipelineIds == {"pl-1", "pl-2"}

WatermarkResults ==
    { [has_key |-> FALSE, value |-> {}],
      [has_key |-> TRUE,  value |-> {}],
      [has_key |-> TRUE,  value |-> {"updated_at"}] }

InfraResults ==
    { [resources_created |-> {3}, estimated_monthly_cost |-> {150},
       data_factory_id |-> {d}] : d \in DataFactoryIds }
    \cup
    { [resources_created |-> {}, estimated_monthly_cost |-> {150},
       data_factory_id |-> {"df-1"}],
      [resources_created |-> {3}, estimated_monthly_cost |-> {},
       data_factory_id |-> {"df-1"}],
      [resources_created |-> {3}, estimated_monthly_cost |-> {150},
       data_factory_id |-> {}] }

PipelineResults ==
    { [pipeline_name |-> {"sales_pipeline"}, pipeline_id |-> {p},
       next_run_time |-> {"02:00"}] : p \in PipelineIds }
    \cup
    { [pipeline_name |-> {}, pipeline_id |-> {"pl-1"},
       next_run_time |-> {"02:00"}],
      [pipeline_name |-> {"sales_pipeline"}, pipeline_id |-> {},
       next_run_time |-> {"02:00"}],
      [pipeline_name |-> {"sales_pipeline"}, pipeline_id |-> {"pl-1"},
       next_run_time |-> {}] }

QualityResults == { [rules_created |-> {4}], [rules_created |-> {}] }

DeploymentResults ==
    { [smoke_test_passed |-> {TRUE}], [smoke_test_passed |-> {FALSE}],
      [smoke_test_passed |-> {}] }

MonitoringResults ==
    { [alerts_created |-> {3}, dashboard_url |-> {"dash"}],
      [alerts_created |-> {},  dashboard_url |-> {"dash"}],
      [alerts_created |-> {3}, dashboard_url |-> {}] }

CostResults ==
    { [savings_found |-> {TRUE}, monthly_savings |-> {40}],
      [savings_found |-> {TRUE}, monthly_savings |-> {}],
      [savings_found |-> {},     monthly_savings |-> {}] }

(* result.get("watermark_column", default) *)
DictGet(result, default) ==
    IF result.has_key THEN result.value ELSE {default}

(* The placeholder of line 138 *)
SkippedQualityResult == [rules_created |-> {0}]

(* A task handed to supervisor.execute_task; a parameter the task does not *)
(* carry is empty.                                                         *)
Task(agent, action) ==
    [agent |-> agent, action |-> action, resources |-> <<>>, mode |-> "",
     watermark_column |-> {}, schedule |-> <<>>, data_factory_id |-> {},
     pipeline_id |-> {}, require_approval |-> FALSE]

(* The order of the steps of create_pipeline: what follows each step *)
NextStep_MonitorFirst(step) ==
    CASE step = "analyze" -> "provision"
      [] step = "provision" -> "create"
      [] step = "create" -> "create_validations"
      [] step = "create_validations" -> "setup_monitoring"
      [] step = "setup_monitoring" -> "deploy"
      [] step = "deploy" -> "optimize_pipeline"
      [] step = "optimize_pipeline" -> "summary"

NextStep(step) ==
    CASE step = "analyze" -> "provision"
      [] step = "provision" -> "create"
      [] step = "create" -> "create_validations"
      [] step = "create_validations" -> "deploy"
      [] step = "deploy" -> "setup_monitoring"
      [] step = "setup_monitoring" -> "optimize_pipeline"
      [] step = "optimize_pipeline" -> "summary"

(* An error raised by execute_task is not caught in create_pipeline: it    *)
(* unwinds to the handler of main (track_workflow is taken not to          *)
(* suppress it).                                                           *)
AfterDispatchFailure_CostTolerated(action) ==
    IF action = "optimize_pipeline" THEN "summary" ELSE "p_raised"

AfterDispatchFailure_Retry(action) ==
    IF action = "deploy" THEN "deploy" ELSE "p_raised"

AfterDispatchFailure_DeployTolerated(action) ==
    IF action = "deploy" THEN "setup_monitoring" ELSE "p_raised"

AfterDispatchFailure(action) == "p_raised"

(* The tests of lines 114 and 182 *)
RunsOptionalStep_Always(toggle) == TRUE

RunsOptionalStep(toggle) == toggle

(* The pipeline's state before create_pipeline has run *)
HelperReset ==
    /\ fn_input = [fn |-> "", arg |-> <<>>]
    /\ fn_output = {}

PipeReset ==
    /\ requirements = {}
    /\ infra_result = {}
    /\ pipeline_result = {}
    /\ quality_result = {}
    /\ deployment_result = {}
    /\ monitoring_result = {}
    /\ cost_result = {}
    /\ dispatched = <<>>
    /\ responses = <<>>
    /\ ret = {}

Send(task) ==
    /\ dispatched' = Append(dispatched, task)
    /\ responses' = Append(responses, "pending")

Answer(kind) ==
    /\ responses[Len(responses)] = "pending"
    /\ responses' = [responses EXCEPT ![Len(responses)] = kind]
    /\ UNCHANGED dispatched

NoCall == UNCHANGED <<dispatched, responses>>

PipelineId_Defaulted ==
    IF TheValue(pipeline_result).pipeline_id = {}
    THEN {"unknown"}
    ELSE TheValue(pipeline_result).pipeline_id

PipelineId == TheValue(pipeline_result).pipeline_id

(* main, lines 338-342: configuration loading and creator construction *)
P_LoadConfig ==
    /\ ppc = "load_config"
    /\ \/ ppc' = "analyze" /\ UNCHANGED <<exit_code, error_logged>>
       \/ ppc' = "exited" /\ Uncaught
    /\ UNCHANGED <<environment, costVars, source, destination, schedule,
                   quality_checks, cost_optimize, requirements, infra_result,
                   pipeline_result, quality_result, deployment_result,
                   monitoring_result, cost_result, dispatched, responses, ret>>
    /\ UNCHANGED helperVars

(* Step 1, _analyze_requirements up to its await, lines 230-251 *)
StartAnalysis ==
    /\ ppc = "analyze"
    /\ IF LoadMode(DetectSourceType(FirstPart(source))) = "incremental"
       THEN /\ Send(Task("pipeline", "detect_watermark_column"))
            /\ ppc' = "await_watermark"
            /\ UNCHANGED requirements
       ELSE /\ requirements' =
                   {BuildRequirements(source, destination, schedule, {})}
            /\ ppc' = NextStep("analyze")
            /\ NoCall
    /\ UNCHANGED <<commonVars, costVars, source, destination, schedule,
                   quality_checks, cost_optimize, infra_result,
                   pipeline_result, quality_result, deployment_result,
                   monitoring_result, cost_result, ret>>
    /\ UNCHANGED helperVars

(* _analyze_requirements from the watermark result on, lines 252-267 *)
ReceiveWatermark ==
    /\ ppc = "await_watermark"
    /\ \/ /\ Answer("raise")
          /\ ppc' = AfterDispatchFailure("detect_watermark_column")
          /\ UNCHANGED requirements
       \/ \E result \in WatermarkResults :
            /\ Answer("ok")
            /\ requirements' =
                   {BuildRequirements(source, destination, schedule,
                                      DictGet(result, "modified_date"))}
            /\ ppc' = NextStep("analyze")
    /\ UNCHANGED <<commonVars, costVars, source, destination, schedule,
                   quality_checks, cost_optimize, infra_result,
                   pipeline_result, quality_result, deployment_result,
                   monitoring_result, cost_result, ret>>
    /\ UNCHANGED helperVars

(* Step 2, lines 75-87 *)
DispatchProvision ==
    /\ ppc = "provision"
    /\ Send([Task("infrastructure", "provision") EXCEPT
               !.resources = TheValue(requirements).required_resources])
    /\ ppc' = "await_provision"
    /\ UNCHANGED <<commonVars, costVars, source, destination, schedule,
                   quality_checks, cost_optimize, requirements, infra_result,
                   pipeline_result, quality_result, deployment_result,
                   monitoring_result, cost_result, ret>>
    /\ UNCHANGED helperVars

(* Lines 79-90: the result, and the two keys the log lines read *)
ReceiveProvision ==
    /\ ppc = "await_provision"
    /\ \/ /\ Answer("raise")
          /\ ppc' = AfterDispatchFailure("provision")
          /\ UNCHANGED infra_result
       \/ \E result \in InfraResults :
            /\ Answer("ok")
            /\ infra_result' = {result}
            /\ ppc' = IF \/ result.resources_created = {}
                         \/ result.estimated_monthly_cost = {}
                      THEN "p_raised"
                      ELSE NextStep("provision")
    /\ UNCHANGED <<commonVars, costVars, source, destination, schedule,
                   quality_checks, cost_optimize, requirements,
                   pipeline_result, quality_result, deployment_result,
                   monitoring_result, cost_result, ret>>
    /\ UNCHANGED helperVars

(* Step 3, lines 92-107 *)
DispatchCreate ==
    /\ ppc = "create"
    /\ IF TheValue(infra_result).data_factory_id = {}
       THEN ppc' = "p_raised" /\ NoCall
       ELSE /\ Send([Task("pipeline", "create") EXCEPT
                       !.mode = TheValue(requirements).load_mode,
                       !.watermark_column =
                           TheValue(requirements).watermark_column,
                       !.schedule = TheValue(requirements).schedule_expression,
                       !.data_factory_id =
                           TheValue(infra_result).data_factory_id])
            /\ ppc' = "await_create"
    /\ UNCHANGED <<commonVars, costVars, source, destination, schedule,
                   quality_checks, cost_optimize, requirements, infra_result,
                   pipeline_result, quality_result, deployment_result,
                   monitoring_result, cost_result, ret>>
    /\ UNCHANGED helperVars

(* Lines 96-111 *)
ReceiveCreate ==
    /\ ppc = "await_create"
    /\ \/ /\ Answer("raise")
          /\ ppc' = AfterDispatchFailure("create")
          /\ UNCHANGED pipeline_result
       \/ \E result \in PipelineResults :
            /\ Answer("ok")
            /\ pipeline_result' = {result}
            /\ ppc' = IF result.pipeline_name = {}
                      THEN "p_raised"
                      ELSE NextStep("create")
    /\ UNCHANGED <<commonVars, costVars, source, destination, schedule,
                   quality_checks, cost_optimize, requirements, infra_result,
                   quality_result, deployment_result, monitoring_result,
                   cost_result, ret>>
    /\ UNCHANGED helperVars

(* Step 4 enabled, lines 114-132 *)
DispatchQuality ==
    /\ ppc = "create_validations"
    /\ RunsOptionalStep(quality_checks)
    /\ IF PipelineId = {}
       THEN ppc' = "p_raised" /\ NoCall
       ELSE /\ Send([Task("data-quality", "create_validations") EXCEPT
                       !.pipeline_id = PipelineId])
            /\ ppc' = "await_create_validations"
    /\ UNCHANGED <<commonVars, costVars, source, destination, schedule,
                   quality_checks, cost_optimize, requirements, infra_result,
                   pipeline_result, quality_result, deployment_result,
                   monitoring_result, cost_result, ret>>
    /\ UNCHANGED helperVars

(* Step 4 disabled, lines 137-139 *)
SkipQuality ==
    /\ ppc = "create_validations"
    /\ ~RunsOptionalStep(quality_checks)
    /\ quality_result' = {SkippedQualityResult}
    /\ ppc' = NextStep("create_validations")
    /\ NoCall
    /\ UNCHANGED <<commonVars, costVars, source, destination, schedule,
                   quality_checks, cost_optimize, requirements, infra_result,
                   pipeline_result, deployment_result, monitoring_result,
                   cost_result, ret>>
    /\ UNCHANGED helperVars

(* Lines 118-136 *)
ReceiveQuality ==
    /\ ppc = "await_create_validations"
    /\ \/ /\ Answer("raise")
          /\ ppc' = AfterDispatchFailure("create_validations")
          /\ UNCHANGED quality_result
       \/ \E result \in QualityResults :
            /\ Answer("ok")
            /\ quality_result' = {result}
            /\ ppc' = IF result.rules_created = {}
                      THEN "p_raised"
                      ELSE NextStep("create_validations")
    /\ UNCHANGED <<commonVars, costVars, source, destination, schedule,
                   quality_checks, cost_optimize, requirements, infra_result,
                   pipeline_result, deployment_result, monitoring_result,
                   cost_result, ret>>
    /\ UNCHANGED helperVars

(* Step 5, lines 141-154 *)
DispatchDeploy ==
    /\ ppc = "deploy"
    /\ IF PipelineId = {}
       THEN ppc' = "p_raised" /\ NoCall
       ELSE /\ Send([Task("deployment", "deploy") EXCEPT
                       !.pipeline_id = PipelineId,
                       !.require_approval = (environment = "prod")])
            /\ ppc' = "await_deploy"
    /\ UNCHANGED <<commonVars, costVars, source, destination, schedule,
                   quality_checks, cost_optimize, requirements, infra_result,
                   pipeline_result, quality_result, deployment_result,
                   monitoring_result, cost_result, ret>>
    /\ UNCHANGED helperVars

(* Lines 145-158 *)
ReceiveDeploy ==
    /\ ppc = "await_deploy"
    /\ \/ /\ Answer("raise")
          /\ ppc' = AfterDispatchFailure("deploy")
          /\ UNCHANGED deployment_result
       \/ \E result \in DeploymentResults :
            /\ Answer("ok")
            /\ deployment_result' = {result}
            /\ ppc' = IF result.smoke_test_passed = {}
                      THEN "p_raised"
                      ELSE NextStep("deploy")
    /\ UNCHANGED <<commonVars, costVars, source, destination, schedule,
                   quality_checks, cost_optimize, requirements, infra_result,
                   pipeline_result, quality_result, monitoring_result,
                   cost_result, ret>>
    /\ UNCHANGED helperVars

(* Step 6, lines 160-176 *)
DispatchMonitoring ==
    /\ ppc = "setup_monitoring"
    /\ IF PipelineId = {}
       THEN ppc' = "p_raised" /\ NoCall
       ELSE /\ Send([Task("monitoring", "setup_monitoring") EXCEPT
                       !.pipeline_id = PipelineId])
            /\ ppc' = "await_setup_monitoring"
    /\ UNCHANGED <<commonVars, costVars, source, destination, schedule,
                   quality_checks, cost_optimize, requirements, infra_result,
                   pipeline_result, quality_result, deployment_result,
                   monitoring_result, cost_result, ret>>
    /\ UNCHANGED helperVars

(* Lines 164-179 *)
ReceiveMonitoring ==
    /\ ppc = "await_setup_monitoring"
    /\ \/ /\ Answer("raise")
          /\ ppc' = AfterDispatchFailure("setup_monitoring")
          /\ UNCHANGED monitoring_result
       \/ \E result \in MonitoringResults :
            /\ Answer("ok")
            /\ monitoring_result' = {result}
            /\ ppc' = IF result.alerts_created = {}
                      THEN "p_raised"
                      ELSE NextStep("setup_monitoring")
    /\ UNCHANGED <<commonVars, costVars, source, destination, schedule,
                   quality_checks, cost_optimize, requirements, infra_result,
                   pipeline_result, quality_result, deployment_result,
                   cost_result, ret>>
    /\ UNCHANGED helperVars

(* The cost step enabled, lines 182-193 *)
DispatchOptimize ==
    /\ ppc = "optimize_pipeline"
    /\ RunsOptionalStep(cost_optimize)
    /\ IF PipelineId = {}
       THEN ppc' = "p_raised" /\ NoCall
       ELSE /\ Send([Task("cost-optimizer", "optimize_pipeline") EXCEPT
                       !.pipeline_id = PipelineId])
            /\ ppc' = "await_optimize_pipeline"
    /\ UNCHANGED <<commonVars, costVars, source, destination, schedule,
                   quality_checks, cost_optimize, requirements, infra_result,
                   pipeline_result, quality_result, deployment_result,
                   monitoring_result, cost_result, ret>>
    /\ UNCHANGED helperVars

(* The cost step disabled, line 182: nothing is assigned *)
SkipOptimize ==
    /\ ppc = "optimize_pipeline"
    /\ ~RunsOptionalStep(cost_optimize)
    /\ ppc' = NextStep("optimize_pipeline")
    /\ NoCall
    /\ UNCHANGED <<commonVars, costVars, source, destination, schedule,
                   quality_checks, cost_optimize, requirements, infra_result,
                   pipeline_result, quality_result, deployment_result,
                   monitoring_result, cost_result, ret>>
    /\ UNCHANGED helperVars

(* Lines 186-198 *)
ReceiveOptimize ==
    /\ ppc = "await_optimize_pipeline"
    /\ \/ /\ Answer("raise")
          /\ ppc' = AfterDispatchFailure("optimize_pipeline")
          /\ UNCHANGED cost_result
       \/ \E result \in CostResults :
            /\ Answer("ok")
            /\ cost_result' = {result}
            /\ ppc' = IF /\ result.savings_found = {TRUE}
                         /\ result.monthly_savings = {}
                      THEN "p_raised"
                      ELSE NextStep("optimize_pipeline")
    /\ UNCHANGED <<commonVars, costVars, source, destination, schedule,
                   quality_checks, cost_optimize, requirements, infra_result,
                   pipeline_result, quality_result, deployment_result,
                   monitoring_result, ret>>
    /\ UNCHANGED helperVars

(* The summary and the return value, lines 200-220 *)
Summary ==
    /\ ppc = "summary"
    /\ IF \/ TheValue(pipeline_result).next_run_time = {}
          \/ TheValue(monitoring_result).dashboard_url = {}
          \/ PipelineId = {}
       THEN ppc' = "p_raised" /\ UNCHANGED ret
       ELSE /\ ret' = {[pipeline_id |-> PipelineId,
                        pipeline_name |-> TheValue(pipeline_result).pipeline_name,
                        status |-> "active",
                        infrastructure |-> TheValue(infra_result),
                        quality |-> TheValue(quality_result),
                        monitoring |-> TheValue(monitoring_result)]}
            /\ ppc' = "returned"
    /\ NoCall
    /\ UNCHANGED <<commonVars, costVars, source, destination, schedule,
                   quality_checks, cost_optimize, requirements, infra_result,
                   pipeline_result, quality_result, deployment_result,
                   monitoring_result, cost_result>>
    /\ UNCHANGED helperVars

(* main, lines 346-355: create_pipeline returned, sys.exit(0) *)
P_ExitSuccess ==
    /\ ppc = "returned"
    /\ exit_code' = {0}
    /\ ppc' = "exited"
    /\ UNCHANGED <<environment, error_logged, costVars, source, destination,
                   schedule, quality_checks, cost_optimize, requirements,
                   infra_result, pipeline_result, quality_result,
                   deployment_result, monitoring_result, cost_result,
                   dispatched, responses, ret>>
    /\ UNCHANGED helperVars

(* main, lines 357-359: the handler of the try block *)
P_ExitFailure ==
    /\ ppc = "p_raised"
    /\ error_logged' = TRUE
    /\ exit_code' = {1}
    /\ ppc' = "exited"
    /\ UNCHANGED <<environment, costVars, source, destination, schedule,
                   quality_checks, cost_optimize, requirements, infra_result,
                   pipeline_result, quality_result, deployment_result,
                   monitoring_result, cost_result, dispatched, responses, ret>>
    /\ UNCHANGED helperVars

----------------------------------------------------------------------------
(* The two programs *)

(* weekly_review.py after argument parsing *)
Init ==
    /\ pc = "load_config"
    /\ environment \in Environments
    /\ dry_run \in BOOLEAN
    /\ auto_approve_nonprod \in BOOLEAN
    /\ CostReset
    /\ exit_code = {}
    /\ error_logged = FALSE
    /\ ppc = "idle"
    /\ source = <<>>
    /\ destination = <<>>
    /\ schedule = <<>>
    /\ quality_checks = FALSE
    /\ cost_optimize = FALSE
    /\ PipeReset
    /\ HelperReset

Next ==
    \/ LoadConfig
    \/ AnalyzeSpend
    \/ FindOpportunities
    \/ SkipExecution
    \/ EnterExecute
    \/ LowRiskIteration
    \/ PendingBuckets
    \/ BuildReport
    \/ SendSlack
    \/ SendEmail
    \/ ExitSuccess
    \/ ExitFailure

Spec == Init /\ [][Next]_vars

(* autonomous_pipeline_creation.py after argument parsing *)
PipelineInit ==
    /\ ppc = "load_config"
    /\ environment \in Environments
    /\ source \in Sources
    /\ destination \in Destinations
    /\ schedule \in Schedules
    /\ quality_checks \in BOOLEAN
    /\ cost_optimize \in BOOLEAN
    /\ PipeReset
    /\ exit_code = {}
    /\ error_logged = FALSE
    /\ pc = "idle"
    /\ dry_run = FALSE
    /\ auto_approve_nonprod = FALSE
    /\ CostReset
    /\ HelperReset

PipelineNext ==
    \/ P_LoadConfig
    \/ StartAnalysis
    \/ ReceiveWatermark
    \/ DispatchProvision
    \/ ReceiveProvision
    \/ DispatchCreate
    \/ ReceiveCreate
    \/ DispatchQuality
    \/ SkipQuality
    \/ ReceiveQuality
    \/ DispatchDeploy
    \/ ReceiveDeploy
    \/ DispatchMonitoring
    \/ ReceiveMonitoring
    \/ DispatchOptimize
    \/ SkipOptimize
    \/ ReceiveOptimize
    \/ Summary
    \/ P_ExitSuccess
    \/ P_ExitFailure

PipelineSpec == PipelineInit /\ [][PipelineNext]_vars

(***************************************************************************)
(* _parse_schedule called on its own, and called again on what it returned *)
(***************************************************************************)
UpperChar(c) ==
    IF \E i \in DOMAIN LowerCase : LowerCase[i] = c
    THEN UpperCase[CHOOSE i \in DOMAIN LowerCase : LowerCase[i] = c]
    ELSE c

(* Every spelling of a token in upper and lower case *)
CaseVariants(token) ==
    {[i \in DOMAIN token |-> IF i \in up THEN UpperChar(token[i]) ELSE token[i]] :
        up \in SUBSET DOMAIN token}

\* "daily-3am"
Sched_daily_3am ==
    <<"d", "a", "i", "l", "y", "-", "3", "a", "m">>
\* " daily"
Sched_space_daily ==
    <<" ", "d", "a", "i", "l", "y">>
\* "yearly"
Sched_yearly ==
    <<"y", "e", "a", "r", "l", "y">>

ScheduleTokens == {ScheduleMapping[i][1] : i \in DOMAIN ScheduleMapping}

ScheduleInputs ==
    UNION {CaseVariants(token) : token \in ScheduleTokens}
    \cup {Sched_cron, Sched_daily_3am, Sched_space_daily, Sched_yearly, <<>>}

HelperInit ==
    /\ ppc = "helper_call"
    /\ fn_input \in {[fn |-> "_parse_schedule", arg |-> sched] :
                        sched \in ScheduleInputs}
    /\ fn_output = {}
    /\ environment = "dev"
    /\ source = <<>>
    /\ destination = <<>>
    /\ schedule = <<>>
    /\ quality_checks = FALSE
    /\ cost_optimize = FALSE
    /\ PipeReset
    /\ exit_code = {}
    /\ error_logged = FALSE
    /\ pc = "idle"
    /\ dry_run = FALSE
    /\ auto_approve_nonprod = FALSE
    /\ CostReset

HelperIdle ==
    UNCHANGED <<commonVars, costVars, source, destination, schedule,
                quality_checks, cost_optimize, requirements, infra_result,
                pipeline_result, quality_result, deployment_result,
                monitoring_result, cost_result, dispatched, responses, ret>>

(* _parse_schedule(schedule), lines 300-309 *)
CallParseSchedule ==
    /\ ppc = "helper_call"
    /\ fn_input.fn = "_parse_schedule"
    /\ fn_output' = {ParseSchedule(fn_input.arg)}
    /\ ppc' = "helper_returned"
    /\ UNCHANGED fn_input
    /\ HelperIdle

(* The returned expression is handed to the helper as its next argument *)
CallAgain ==
    /\ ppc = "helper_returned"
    /\ fn_input' = [fn_input EXCEPT !.arg = TheValue(fn_output)]
    /\ fn_output' = {}
    /\ ppc' = "helper_call"
    /\ HelperIdle

HelperNext ==
    \/ CallParseSchedule
    \/ CallAgain

HelperSpec == HelperInit /\ [][HelperNext]_vars

(***************************************************************************)
(* Either program is started: the runs of the platform are the runs of the *)
(* cost review together with the runs of the pipeline creation.            *)
(***************************************************************************)
PlatformInit == Init \/ PipelineInit

PlatformNext == Next \/ PipelineNext

PlatformSpec == PlatformInit /\ [][PlatformNext]_vars


----------------------------------------------------------------------------
(* Properties of the cost review *)

Buckets == {"low_risk", "medium_risk", "high_risk"}
LowRiskOpps == {opp \in Range(opportunities) : opp.risk_level = "low"}
HeldOpps == {opp \in Range(opportunities) : opp.risk_level # "low"}
Dispatched == Range(apply_calls)
ExecutionFinished == ~dry_run /\ results # {}
CountOutcome(kind) == Cardinality({i \in DOMAIN outcome : outcome[i] = kind})

(* C1: in a non-dry-run review a low-risk opportunity is handed to         *)
(* apply_optimization iff environment # "prod" and auto_approve_nonprod;   *)
(* in every other combination (prod with the flag set included) it is not  *)
(* dispatched and is counted as pending.                                   *)
C1_LowRiskPolicy ==
    LET approve == environment # "prod" /\ auto_approve_nonprod IN
    /\ \A opp \in Dispatched : approve
    /\ \A opp \in LowRiskOpps : outcome[opp.id] = "pending" => ~approve
    /\ ExecutionFinished =>
          \A opp \in LowRiskOpps :
              /\ (opp \in Dispatched) <=> approve
              /\ ~approve => outcome[opp.id] = "pending"
    /\ (ExecutionFinished /\ ~approve) =>
          TheValue(results).pending_count = Len(opportunities)

C1_Witness ==
    /\ ExecutionFinished
    /\ environment = "prod"
    /\ auto_approve_nonprod
    /\ LowRiskOpps # {}
    /\ Dispatched = {}
    /\ TheValue(results).pending_count = Len(opportunities)

(* C2: a medium-risk or high-risk opportunity is always counted as pending *)
(* and never dispatched, whatever the environment and the flag; only       *)
(* opportunities whose risk_level is exactly "low" are ever dispatched.    *)
C2_HeldBucketsPending ==
    /\ \A opp \in Dispatched : opp.risk_level = "low"
    /\ ExecutionFinished =>
          /\ \A opp \in HeldOpps : outcome[opp.id] = "pending"
          /\ TheValue(results).pending_count >= Cardinality(HeldOpps)

C2_Witness ==
    /\ ExecutionFinished
    /\ environment = "dev"
    /\ auto_approve_nonprod
    /\ Dispatched # {}
    /\ \E a, b \in HeldOpps : a.risk_level = "medium" /\ b.risk_level = "unknown"
    /\ TheValue(results).pending_count = Cardinality(HeldOpps)

(* C3: _categorize_opportunities puts every opportunity in exactly one     *)
(* bucket, so the bucket lengths add up to the length of the input; low    *)
(* goes to low_risk, medium to medium_risk, anything else to high_risk.    *)
Occurrences(opp) ==
    {<<b, k>> \in Buckets \X (1..Len(opportunities)) :
        k \in DOMAIN categorized[b] /\ categorized[b][k] = opp}

C3_Partition ==
    /\ Len(categorized.low_risk) + Len(categorized.medium_risk)
         + Len(categorized.high_risk) = Len(opportunities)
    /\ \A opp \in Range(opportunities) :
          /\ Cardinality(Occurrences(opp)) = 1
          /\ (opp \in Range(categorized.low_risk)) <=> opp.risk_level = "low"
          /\ (opp \in Range(categorized.medium_risk)) <=> opp.risk_level = "medium"
          /\ (opp \in Range(categorized.high_risk))
                 <=> opp.risk_level \notin {"low", "medium"}

C3_Witness ==
    /\ Len(opportunities) = 3
    /\ opportunities[1].risk_level = "low"
    /\ opportunities[2].risk_level = "medium"
    /\ opportunities[3].risk_level = "unknown"
    /\ Len(categorized.low_risk) = 1
    /\ Len(categorized.medium_risk) = 1
    /\ categorized.high_risk = <<opportunities[3]>>

(* C4 as stated: every report, dry-run or not, has                         *)
(* applied + pending + skipped = low + medium + high.                      *)
CountsBalance(rep) ==
    rep.actions_taken.applied_count + rep.actions_taken.pending_count
        + rep.actions_taken.skipped_count
    = rep.optimization_summary.low_risk_count
        + rep.optimization_summary.medium_risk_count
        + rep.optimization_summary.high_risk_count

C4_Original == report # {} => CountsBalance(TheValue(report))

(* C4 amended: every report of a run that is not a dry run has             *)
(* applied + pending + skipped = low + medium + high, each dispatched      *)
(* opportunity is counted exactly once, as applied or as skipped, and the  *)
(* counters are the numbers of opportunities that took each branch; the    *)
(* report of a dry run has all three counters at 0.                        *)
C4_CountsBalance ==
    report # {} =>
        LET rep == TheValue(report) IN
        IF rep.dry_run
        THEN /\ rep.actions_taken.applied_count = 0
             /\ rep.actions_taken.pending_count = 0
             /\ rep.actions_taken.skipped_count = 0
        ELSE /\ CountsBalance(rep)
             /\ rep.actions_taken.applied_count = CountOutcome("applied")
             /\ rep.actions_taken.skipped_count = CountOutcome("skipped")
             /\ rep.actions_taken.pending_count = CountOutcome("pending")
             /\ rep.actions_taken.applied_count
                  + rep.actions_taken.skipped_count = Len(apply_calls)
             /\ Cardinality(Dispatched) = Len(apply_calls)

C4_Witness ==
    /\ report # {}
    /\ ~TheValue(report).dry_run
    /\ TheValue(report).actions_taken.applied_count = 1
    /\ TheValue(report).actions_taken.skipped_count = 1
    /\ TheValue(report).actions_taken.pending_count = 1

(* C5: a failed apply_optimization for one low-risk opportunity (a result  *)
(* with success false, with or without an error field, or a raised error)  *)
(* never aborts the run: it is counted as skipped and the loop goes on.    *)
C5_ApplyFailureTolerated ==
    /\ ~(pc = "raised" /\ apply_calls # <<>> /\ results = {})
    /\ (pc = "low_risk_loop" \/ results # {}) =>
          skipped_count + applied_count = Len(apply_calls)

(* C9: with a baseline total_monthly_cost of 0 the report is still built,  *)
(* with savings_percentage 0: _generate_report never raises.               *)
C9_ZeroBaselineGuarded ==
    (/\ spend_analysis # {}
     /\ TheValue(spend_analysis).total_monthly_cost = 0
     /\ results # {}
     /\ pc # "generate_report")
    => /\ report # {}
       /\ TheValue(report).optimization_summary.savings_percentage = 0

(* C10: in a dry run apply_optimization is never dispatched, the counters  *)
(* and actual_savings of the results and of the report are 0, and the      *)
(* report, marked dry_run, is built and notified before the run returns.   *)
C10_DryRunChangesNothing ==
    dry_run =>
        /\ apply_calls = <<>>
        /\ pc # "low_risk_loop"
        /\ \A i \in DOMAIN outcome : outcome[i] = "none"
        /\ results # {} => TheValue(results) = DryRunResults
        /\ report # {} =>
              /\ TheValue(report).dry_run
              /\ TheValue(report).actions_taken = DryRunResults
        /\ pc \in {"send_slack", "send_email", "return"} => report # {}
        /\ pc \in {"send_email", "return"} => slack_sent = 1
        /\ exit_code = {0} => report # {} /\ slack_sent = 1

C10_Witness ==
    /\ dry_run
    /\ environment = "dev"
    /\ auto_approve_nonprod
    /\ LowRiskOpps # {}
    /\ exit_code = {0}
    /\ report # {}
    /\ slack_sent = 1


----------------------------------------------------------------------------
(* Properties of the pipeline creation *)

StepOrder ==
    <<"detect_watermark_column", "provision", "create", "create_validations",
      "deploy", "setup_monitoring", "optimize_pipeline">>
MandatoryActions ==
    {"detect_watermark_column", "provision", "create", "deploy",
     "setup_monitoring"}
Position(action) == CHOOSE k \in DOMAIN StepOrder : StepOrder[k] = action
DispatchedActions == {dispatched[i].action : i \in DOMAIN dispatched}
Outstanding == {i \in DOMAIN responses : responses[i] = "pending"}

(* C6: a dispatch failure of a mandatory step (watermark detection,        *)
(* provisioning, pipeline creation, deployment, monitoring setup) ends the *)
(* run failed: nothing is dispatched after the failed task and             *)
(* create_pipeline returns no result; after a failed "create" the quality, *)
(* deployment and monitoring tasks are never dispatched.                   *)
C6_MandatoryFailureAborts ==
    \A i \in DOMAIN dispatched :
        (dispatched[i].action \in MandatoryActions /\ responses[i] = "raise")
        => /\ i = Len(dispatched)
           /\ ret = {}
           /\ ppc \in {"p_raised", "exited"}
           /\ exit_code # {0}
           /\ dispatched[i].action = "create" =>
                 DispatchedActions \cap
                    {"create_validations", "deploy", "setup_monitoring"} = {}

C6_Witness ==
    /\ quality_checks
    /\ Len(dispatched) >= 2
    /\ dispatched[Len(dispatched)].action = "create"
    /\ responses[Len(responses)] = "raise"
    /\ exit_code = {1}
    /\ ret = {}

(* C7: the tasks of a run are dispatched one at a time in the fixed order  *)
(* watermark detection, provision, create, [create_validations], deploy,   *)
(* setup_monitoring, [optimize_pipeline]; a task is dispatched only after  *)
(* every earlier one has returned its result, at most one dispatch is      *)
(* outstanding, and the result is returned after the last of them.         *)
C7_SequentialFixedOrder ==
    /\ \A i, j \in DOMAIN dispatched :
          i < j => Position(dispatched[i].action) < Position(dispatched[j].action)
    /\ \A i \in DOMAIN dispatched : i < Len(dispatched) => responses[i] = "ok"
    /\ Cardinality(Outstanding) <= 1
    /\ ret # {} =>
          /\ \A i \in DOMAIN responses : responses[i] = "ok"
          /\ {"provision", "create", "deploy", "setup_monitoring"}
                \subseteq DispatchedActions
          /\ ("create_validations" \in DispatchedActions) <=> quality_checks
          /\ ("optimize_pipeline" \in DispatchedActions) <=> cost_optimize

C7_Witness ==
    /\ ret # {}
    /\ Len(dispatched) = Len(StepOrder)
    /\ \A i \in DOMAIN dispatched : dispatched[i].action = StepOrder[i]

(* C8 as stated: a disabled optional step is not dispatched, the run goes  *)
(* on, and a placeholder result is recorded for the skipped step, for the  *)
(* quality step and for the cost step alike.                               *)
C8_Original ==
    ret # {} =>
        /\ ~quality_checks =>
              /\ "create_validations" \notin DispatchedActions
              /\ TheValue(ret).quality.rules_created = {0}
        /\ ~cost_optimize =>
              /\ "optimize_pipeline" \notin DispatchedActions
              /\ cost_result # {}

(* C8 amended: a disabled optional step is never dispatched and does not   *)
(* fail the run, which goes on to the next step; for the quality step the  *)
(* placeholder rules_created = 0 is recorded and is what the returned      *)
(* result carries; for the cost step nothing is recorded.                  *)
C8_SkippedNotFailed ==
    /\ ~quality_checks =>
          /\ "create_validations" \notin DispatchedActions
          /\ quality_result \in {{}, {SkippedQualityResult}}
          /\ "deploy" \in DispatchedActions =>
                quality_result = {SkippedQualityResult}
          /\ ret # {} => TheValue(ret).quality.rules_created = {0}
    /\ ~cost_optimize =>
          /\ "optimize_pipeline" \notin DispatchedActions
          /\ cost_result = {}
          /\ ppc = "summary" =>
                /\ \A i \in DOMAIN responses : responses[i] = "ok"
                /\ "setup_monitoring" \in DispatchedActions

C8_Witness ==
    /\ ~quality_checks
    /\ ~cost_optimize
    /\ exit_code = {0}
    /\ ret # {}
    /\ TheValue(ret).quality = SkippedQualityResult
    /\ DispatchedActions \cap {"create_validations", "optimize_pipeline"} = {}
    /\ {"deploy", "setup_monitoring"} \subseteq DispatchedActions

(***************************************************************************)
(* Failure of spend analysis or of discovery; the report is built once     *)
(***************************************************************************)
CallsOf(op) == {i \in DOMAIN calls : calls[i].op = op}
Failed(op) == \E i \in CallsOf(op) : ~calls[i].ok
Notifications == {"send_slack_notification", "send_email"}

(* C11: when analyze_spend or find_opportunities raises, the run is over:  *)
(* no apply_optimization call is made, no report is built, neither the     *)
(* chat nor the email notification is sent, and the process does not exit  *)
(* with 0 (it exits with 1).  The report is built at most once per run,    *)
(* and only once every opportunity sits in a bucket and, unless the run is *)
(* a dry run, the execution step is over: every opportunity has its        *)
(* outcome and no apply_optimization call follows the report.              *)
C11_DiscoveryFailureFatal ==
    /\ (Failed("analyze_spend") \/ Failed("find_opportunities")) =>
          /\ apply_calls = <<>>
          /\ CallsOf("apply_optimization") = {}
          /\ CallsOf("generate_report") = {}
          /\ report = {}
          /\ \A n \in Notifications : CallsOf(n) = {}
          /\ slack_sent = 0 /\ email_sent = 0
          /\ pc \in {"raised", "exited"}
          /\ exit_code # {0}
          /\ pc = "exited" => exit_code = {1}
    /\ Cardinality(CallsOf("generate_report")) <= 1
    /\ report # {} => CallsOf("generate_report") # {}
    /\ \A i \in CallsOf("generate_report") :
          /\ \E j \in 1..(i - 1) :
                calls[j].op = "find_opportunities" /\ calls[j].ok
          /\ Len(categorized.low_risk) + Len(categorized.medium_risk)
                + Len(categorized.high_risk) = Len(opportunities)
          /\ results # {}
          /\ ~dry_run =>
                /\ \A k \in DOMAIN outcome : outcome[k] # "none"
                /\ \A j \in CallsOf("apply_optimization") : j < i

C11_Witness ==
    /\ pc = "exited"
    /\ exit_code = {1}
    /\ spend_analysis # {}
    /\ Failed("find_opportunities")
    /\ calls = <<[op |-> "analyze_spend", ok |-> TRUE],
                 [op |-> "find_opportunities", ok |-> FALSE]>>

(***************************************************************************)
(* Failure of a notification                                               *)
(***************************************************************************)
(* C12: an exception raised by send_slack_notification or by send_email    *)
(* once the report is built does not fail the run: run_weekly_review still *)
(* returns the report and the process exits with 0.                        *)
C12_NotificationFailureTolerated ==
    (\E n \in Notifications : Failed(n)) =>
        /\ report # {}
        /\ pc # "raised"
        /\ exit_code # {1}
        /\ pc = "exited" => exit_code = {0}

(***************************************************************************)
(* Identifiers handed from one step to the next                            *)
(***************************************************************************)
DownstreamActions ==
    {"create_validations", "deploy", "setup_monitoring", "optimize_pipeline"}

(* C13: the data_factory_id of the "create" task is the one the            *)
(* provisioning result holds, and the pipeline_id of every quality,        *)
(* deployment, monitoring and cost task and of the returned result is the  *)
(* one the pipeline-creation result holds.  When the upstream result lacks *)
(* the identifier the run fails before the step that needs it: no later    *)
(* task is dispatched, nothing is returned and the exit code is not 0.     *)
C13_IdentifiersThreaded ==
    /\ \A i \in DOMAIN dispatched :
          LET task == dispatched[i] IN
          /\ task.action = "create" =>
                /\ infra_result # {}
                /\ task.data_factory_id \in {{id} : id \in DataFactoryIds}
                /\ task.data_factory_id = TheValue(infra_result).data_factory_id
          /\ task.action \in DownstreamActions =>
                /\ pipeline_result # {}
                /\ task.pipeline_id \in {{id} : id \in PipelineIds}
                /\ task.pipeline_id = TheValue(pipeline_result).pipeline_id
    /\ ret # {} =>
          /\ TheValue(ret).pipeline_id \in {{id} : id \in PipelineIds}
          /\ TheValue(ret).pipeline_id = TheValue(pipeline_result).pipeline_id
    /\ (infra_result # {} /\ TheValue(infra_result).data_factory_id = {}) =>
          /\ DispatchedActions \cap ({"create"} \cup DownstreamActions) = {}
          /\ ret = {}
          /\ exit_code # {0}
    /\ (pipeline_result # {} /\ TheValue(pipeline_result).pipeline_id = {}) =>
          /\ DispatchedActions \cap DownstreamActions = {}
          /\ ret = {}
          /\ exit_code # {0}

C13_Witness ==
    /\ exit_code = {0}
    /\ TheValue(ret).pipeline_id = {"pl-2"}
    /\ TheValue(infra_result).data_factory_id = {"df-2"}
    /\ DownstreamActions \subseteq DispatchedActions
    /\ \A i \in DOMAIN dispatched :
          /\ dispatched[i].action = "create" =>
                dispatched[i].data_factory_id = {"df-2"}
          /\ dispatched[i].action \in DownstreamActions =>
                dispatched[i].pipeline_id = {"pl-2"}

(***************************************************************************)
(* Optional keys of the agents' results                                    *)
(***************************************************************************)
(* No agent raised and every key the later steps cannot do without is      *)
(* there: whatever is missing is one of the optional keys.                 *)
OnlyOptionalKeysMissing ==
    /\ \A i \in DOMAIN responses : responses[i] # "raise"
    /\ infra_result # {} => TheValue(infra_result).data_factory_id # {}
    /\ pipeline_result # {} =>
          /\ TheValue(pipeline_result).pipeline_id # {}
          /\ TheValue(pipeline_result).pipeline_name # {}
    /\ cost_result # {} =>
          (TheValue(cost_result).savings_found = {TRUE} =>
              TheValue(cost_result).monthly_savings # {})

(* C14: a result that lacks rules_created, resources_created,              *)
(* estimated_monthly_cost, smoke_test_passed, alerts_created,              *)
(* dashboard_url or next_run_time does not fail the run: a default is      *)
(* substituted and the run goes on.  (A run that ended while loading the   *)
(* configuration, before any requirement was analysed, received no result.)*)
C14_OptionalKeysTolerated ==
    OnlyOptionalKeysMissing =>
        /\ ppc # "p_raised"
        /\ exit_code # {1} \/ requirements = {}

(***************************************************************************)
(* No call is repeated                                                     *)
(***************************************************************************)
ApplyCallsFor(opp) == {i \in DOMAIN apply_calls : apply_calls[i] = opp}

(* C15: nothing is retried, whether the call succeeded or failed.  In a    *)
(* pipeline-creation run no two dispatched tasks have the same agent and   *)
(* action; in a cost-review run analyze_spend and find_opportunities are   *)
(* each called at most once and apply_optimization at most once for each   *)
(* opportunity; a failed call is the last call of its run.                 *)
C15_NoRetry ==
    /\ \A i, j \in DOMAIN dispatched :
          (/\ dispatched[i].agent = dispatched[j].agent
           /\ dispatched[i].action = dispatched[j].action) => i = j
    /\ \A i \in DOMAIN responses : responses[i] = "raise" => i = Len(responses)
    /\ Cardinality(CallsOf("analyze_spend")) <= 1
    /\ Cardinality(CallsOf("find_opportunities")) <= 1
    /\ \A opp \in Range(opportunities) : Cardinality(ApplyCallsFor(opp)) <= 1
    /\ Cardinality(CallsOf("apply_optimization")) = Len(apply_calls)
    /\ Range(apply_calls) \subseteq Range(opportunities)
    /\ \A i \in DOMAIN calls :
          ~calls[i].ok => i = Len(calls)

C15_Witness ==
    /\ ppc = "exited"
    /\ exit_code = {1}
    /\ Len(dispatched) >= 4
    /\ dispatched[Len(dispatched)].action = "deploy"
    /\ responses[Len(responses)] = "raise"

(***************************************************************************)
(* Load mode and watermark detection                                       *)
(***************************************************************************)
WatermarkRequested == "detect_watermark_column" \in DispatchedActions

(* C16: load_mode is "incremental" exactly when the detected source kind   *)
(* is sqlserver, postgresql or mysql, and "full" for every other kind,     *)
(* "unknown" included; the detect_watermark_column task is dispatched      *)
(* exactly for an incremental load, before any other task, and for a full  *)
(* load no watermark is requested and watermark_column stays None.  The    *)
(* source "sqlserver-prod.dbo.sales" is detected as sqlserver, loaded      *)
(* incrementally, and its watermark is requested.                          *)
C16_LoadModeFromSourceKind ==
    LET kind == DetectSourceType(FirstPart(source))
        relational == kind \in {"sqlserver", "postgresql", "mysql"}
    IN
    /\ requirements # {} =>
          LET req == TheValue(requirements) IN
          /\ req.source_type = kind
          /\ req.load_mode \in {"incremental", "full"}
          /\ req.load_mode = "incremental" <=>
                req.source_type \in {"sqlserver", "postgresql", "mysql"}
          /\ WatermarkRequested <=> req.load_mode = "incremental"
          /\ req.load_mode = "full" => req.watermark_column = {}
    /\ WatermarkRequested =>
          relational /\ dispatched[1].action = "detect_watermark_column"
    /\ (~relational /\ dispatched # <<>>) => requirements # {}
    /\ (source = Src_sqlserver /\ requirements # {}) =>
          /\ TheValue(requirements).source_type = "sqlserver"
          /\ TheValue(requirements).load_mode = "incremental"
          /\ WatermarkRequested

C16_Witness ==
    /\ source = Src_sqlserver
    /\ requirements # {}
    /\ TheValue(requirements).source_type = "sqlserver"
    /\ TheValue(requirements).load_mode = "incremental"
    /\ TheValue(requirements).watermark_column = {"updated_at"}
    /\ dispatched[1].action = "detect_watermark_column"
    /\ "provision" \in DispatchedActions

(***************************************************************************)
(* _parse_schedule                                                         *)
(***************************************************************************)
\* "0 * * * *", "0 2 * * *", "0 2 * * 0", "0 2 1 * *"
EveryHour == <<"0", " ", "*", " ", "*", " ", "*", " ", "*">>
EveryDayAt2 == <<"0", " ", "2", " ", "*", " ", "*", " ", "*">>
EverySundayAt2 == <<"0", " ", "2", " ", "*", " ", "*", " ", "0">>
EveryFirstAt2 == <<"0", " ", "2", " ", "1", " ", "*", " ", "*">>

RecognizedSchedules ==
    CaseVariants(Key_hourly) \cup CaseVariants(Key_daily)
        \cup CaseVariants(Key_daily_2am) \cup CaseVariants(Key_weekly)
        \cup CaseVariants(Key_monthly)

(* C17: _parse_schedule returns "0 * * * *" for hourly, "0 2 * * *" for    *)
(* daily and for daily-2am, "0 2 * * 0" for weekly and "0 2 1 * *" for     *)
(* monthly, in whatever case the token is written; it returns every other  *)
(* input as it was given; and applied to what it returned it returns the   *)
(* same expression again.                                                  *)
C17_ParseSchedule ==
    (fn_input.fn = "_parse_schedule" /\ fn_output # {}) =>
        LET arg == fn_input.arg
            out == TheValue(fn_output)
        IN /\ arg \in CaseVariants(Key_hourly) => out = EveryHour
           /\ arg \in CaseVariants(Key_daily) => out = EveryDayAt2
           /\ arg \in CaseVariants(Key_daily_2am) => out = EveryDayAt2
           /\ arg \in CaseVariants(Key_weekly) => out = EverySundayAt2
           /\ arg \in CaseVariants(Key_monthly) => out = EveryFirstAt2
           /\ arg \notin RecognizedSchedules => out = arg
           /\ ParseSchedule(out) = out

C17_Witness ==
    /\ ppc = "helper_returned"
    /\ fn_input = [fn |-> "_parse_schedule", arg |-> Sched_Hourly]
    /\ fn_output = {EveryHour}

(***************************************************************************)
(* Realized savings                                                        *)
(***************************************************************************)
AppliedIds == {i \in DOMAIN outcome : outcome[i] = "applied"}

RECURSIVE SavingsOf(_)
SavingsOf(ids) ==
    IF ids = {} THEN 0
    ELSE LET i == CHOOSE k \in ids : TRUE
         IN opportunities[i].monthly_savings + SavingsOf(ids \ {i})

(* C18: actual_savings is the sum of monthly_savings over exactly the      *)
(* opportunities counted in applied_count, those apply_optimization        *)
(* answered with success; it is never more than the total potential        *)
(* savings of the run, and it is 0 when applied_count is 0.  The report    *)
(* carries that value.                                                     *)
C18_ActualSavings ==
    /\ Cardinality(AppliedIds) = applied_count
    /\ actual_savings = SavingsOf(AppliedIds)
    /\ actual_savings <= SavingsOf(DOMAIN opportunities)
    /\ applied_count = 0 => actual_savings = 0
    /\ results # {} =>
          /\ TheValue(results).actual_savings = SavingsOf(AppliedIds)
          /\ TheValue(results).applied_count = Cardinality(AppliedIds)
    /\ report # {} =>
          LET taken == TheValue(report).actions_taken
              summary == TheValue(report).optimization_summary
          IN /\ taken.actual_savings = SavingsOf(AppliedIds)
             /\ taken.applied_count = Cardinality(AppliedIds)
             /\ taken.actual_savings <= summary.total_potential_savings
             /\ taken.applied_count = 0 => taken.actual_savings = 0

C18_Witness ==
    /\ ~dry_run
    /\ report # {}
    /\ TheValue(report).actions_taken.applied_count = 2
    /\ TheValue(report).actions_taken.skipped_count = 1
    /\ TheValue(report).actions_taken.actual_savings = 1000
    /\ TheValue(report).optimization_summary.total_potential_savings = 1700
    /\ outcome = <<"applied", "skipped", "applied">>

(***************************************************************************)
(* Cost drivers in the report                                              *)
(***************************************************************************)
(* The cost-driver lists a report holds *)
DriverLists(rep) == {rep.spend_summary.top_cost_drivers}

(* C19: the report shows the first 5 cost drivers, in the order spend      *)
(* analysis returned them, and still holds the whole list spend analysis   *)
(* returned.                                                               *)
C19_FullDriverListRetained ==
    report # {} =>
        LET full == TheValue(spend_analysis).top_cost_drivers
            shown == TheValue(report).spend_summary.top_cost_drivers
        IN /\ shown = SubSeq(full, 1, Min(5, Len(full)))
           /\ full \in DriverLists(TheValue(report))

(***************************************************************************)
(* Exit codes                                                              *)
(***************************************************************************)
(* C20: the process exits with 0 exactly when the run succeeded and with 1 *)
(* on every error after argument parsing, an error of configuration        *)
(* loading or of the construction of the orchestrator included, and every  *)
(* error is logged through the logger before the exit.                     *)
C20_ExitCodes ==
    /\ pc = "exited" =>
          /\ exit_code \in {{0}, {1}}
          /\ exit_code = {0} <=>
                (report # {} /\ \A i \in DOMAIN calls : calls[i].ok)
    /\ exit_code = {1} => error_logged

(***************************************************************************)
(* Detection of the source and destination kind                            *)
(***************************************************************************)
(* The tokens of a mapping the text contains, and the longest of them *)
ContainedTokens(mapping, text) ==
    {i \in DOMAIN mapping : Contains(mapping[i][1], text)}

LongestTokens(mapping, text) ==
    {i \in ContainedTokens(mapping, text) :
        \A j \in ContainedTokens(mapping, text) :
            Len(mapping[j][1]) <= Len(mapping[i][1])}

(* C21: the detected kind is the kind of the longest known token the       *)
(* lower-cased prefix contains (a source prefix with both "mysql" and      *)
(* "oracle" is oracle, a destination prefix with both "datalake" and       *)
(* "databricks" is databricks); with no token contained the source kind is *)
(* "unknown" and the destination kind is "data_lake".                      *)
C21_LongestMatchWins ==
    requirements # {} =>
        LET req == TheValue(requirements)
            src == Lower(FirstPart(source))
            dst == Lower(FirstPart(destination))
        IN /\ IF ContainedTokens(SourceMapping, src) = {}
              THEN req.source_type = "unknown"
              ELSE \E i \in LongestTokens(SourceMapping, src) :
                      req.source_type = SourceMapping[i][2]
           /\ IF ContainedTokens(DestMapping, dst) = {}
              THEN req.destination_type = "data_lake"
              ELSE \E i \in LongestTokens(DestMapping, dst) :
                      req.destination_type = DestMapping[i][2]
           /\ source = Src_mysql_oracle => req.source_type = "oracle"
           /\ destination = Dst_databricks_datalake =>
                 req.destination_type = "databricks"

(***************************************************************************)
(* The fallback watermark column                                           *)
(***************************************************************************)
(* C22: for an incremental load the plan's watermark_column is never None: *)
(* when the detection result has no watermark_column key, or has it with a *)
(* null value, the plan holds the fallback "modified_date", and the        *)
(* "create" task is sent with a watermark_column that is not None.         *)
C22_WatermarkFallback ==
    /\ (requirements # {} /\ TheValue(requirements).load_mode = "incremental")
          => TheValue(requirements).watermark_column
                \in {{"modified_date"}, {"updated_at"}}
    /\ \A i \in DOMAIN dispatched :
          (dispatched[i].action = "create" /\ dispatched[i].mode = "incremental")
             => dispatched[i].watermark_column # {}

(***************************************************************************)
(* The required resources                                                  *)
(***************************************************************************)
(* C23: the resource list has no duplicate, starts with data_factory then  *)
(* storage_account, then holds synapse_workspace exactly for a synapse     *)
(* destination or databricks_workspace exactly for a databricks one (never *)
(* both), and ends with integration_runtime exactly for a sqlserver,       *)
(* postgresql or mysql source; it holds nothing else, so the list is a     *)
(* function of the two kinds; and it is the "resources" of the provision   *)
(* task.                                                                   *)
C23_RequiredResources ==
    requirements # {} =>
        LET req == TheValue(requirements)
            res == req.required_resources
            synapse == req.destination_type = "synapse"
            databricks == req.destination_type = "databricks"
            runtime == req.source_type \in {"sqlserver", "postgresql", "mysql"}
            workspace == synapse \/ databricks
        IN /\ Cardinality(Range(res)) = Len(res)
           /\ Len(res) = 2 + (IF workspace THEN 1 ELSE 0)
                           + (IF runtime THEN 1 ELSE 0)
           /\ res[1] = "data_factory"
           /\ res[2] = "storage_account"
           /\ "synapse_workspace" \in Range(res) <=> synapse
           /\ "databricks_workspace" \in Range(res) <=> databricks
           /\ ~({"synapse_workspace", "databricks_workspace"} \subseteq Range(res))
           /\ workspace =>
                 res[3] \in {"synapse_workspace", "databricks_workspace"}
           /\ "integration_runtime" \in Range(res) <=> runtime
           /\ runtime => res[Len(res)] = "integration_runtime"
           /\ \A i \in DOMAIN dispatched :
                 dispatched[i].action = "provision" =>
                    dispatched[i].resources = res

C23_Witness ==
    /\ requirements # {}
    /\ TheValue(requirements).source_type = "sqlserver"
    /\ TheValue(requirements).destination_type = "synapse"
    /\ \E i \in DOMAIN dispatched :
          /\ dispatched[i].action = "provision"
          /\ dispatched[i].resources =
                <<"data_factory", "storage_account", "synapse_workspace",
                  "integration_runtime">>

(***************************************************************************)
(* Order within the buckets                                                *)
(***************************************************************************)
(* The place of an opportunity in the list find_opportunities returned *)
InputIndex(opp) == CHOOSE k \in DOMAIN opportunities : opportunities[k] = opp

InInputOrder(seq) ==
    \A i, j \in DOMAIN seq : i < j => InputIndex(seq[i]) < InputIndex(seq[j])

(* The low-risk opportunities already decided, in the order of the bucket *)
DecidedLowRisk ==
    {k \in DOMAIN categorized.low_risk :
        outcome[InputIndex(categorized.low_risk[k])] # "none"}

(* C24: in each of the buckets low_risk, medium_risk and high_risk the     *)
(* opportunities stand in the relative order of the input list; in a run   *)
(* that is not a dry run the low-risk opportunities are decided in that    *)
(* order (the decided ones are a prefix of the bucket) and the             *)
(* apply_optimization calls are made in that order.                        *)
C24_StablePartition ==
    /\ \A b \in Buckets :
          /\ Range(categorized[b]) \subseteq Range(opportunities)
          /\ InInputOrder(categorized[b])
    /\ InInputOrder(apply_calls)
    /\ (~dry_run /\ pc = "low_risk_loop") =>
          /\ \A k \in DOMAIN categorized.low_risk :
                k \in DecidedLowRisk => \A h \in 1..k : h \in DecidedLowRisk
          /\ \A k \in DOMAIN categorized.low_risk :
                (k \in DecidedLowRisk /\ k < low_idx) \/
                (k \notin DecidedLowRisk /\ k >= low_idx)

C24_Witness ==
    /\ ~dry_run
    /\ pc = "low_risk_loop"
    /\ Len(opportunities) = 3
    /\ opportunities[2].risk_level = "high"
    /\ Len(categorized.low_risk) = 2
    /\ categorized.low_risk = <<opportunities[1], opportunities[3]>>
    /\ apply_calls = <<opportunities[1], opportunities[3]>>

(***************************************************************************)
(* Failure of an enabled optional step                                     *)
(***************************************************************************)
(* The answer the task of an action received: "none" before its dispatch *)
ResponseTo(action) ==
    IF \E i \in DOMAIN dispatched : dispatched[i].action = action
    THEN responses[CHOOSE i \in DOMAIN dispatched :
                       dispatched[i].action = action]
    ELSE "none"

(* C25: a failed dispatch of an enabled optional step ends the run like a  *)
(* mandatory one.  When the data-quality task fails, neither deployment    *)
(* nor monitoring is dispatched; when the cost-optimizer task fails, with  *)
(* deployment and monitoring already done, create_pipeline still returns   *)
(* nothing and the process exits with 1.                                   *)
C25_OptionalFailureFatal ==
    /\ ResponseTo("create_validations") = "raise" =>
          /\ quality_checks
          /\ DispatchedActions \cap
                {"deploy", "setup_monitoring", "optimize_pipeline"} = {}
          /\ ret = {}
          /\ ppc \in {"p_raised", "exited"}
          /\ exit_code # {0}
          /\ ppc = "exited" => exit_code = {1}
    /\ ResponseTo("optimize_pipeline") = "raise" =>
          /\ cost_optimize
          /\ ResponseTo("deploy") = "ok"
          /\ ResponseTo("setup_monitoring") = "ok"
          /\ deployment_result # {}
          /\ monitoring_result # {}
          /\ ret = {}
          /\ ppc \in {"p_raised", "exited"}
          /\ exit_code # {0}
          /\ ppc = "exited" => exit_code = {1}

C25_Witness ==
    /\ ResponseTo("optimize_pipeline") = "raise"
    /\ ppc = "exited"
    /\ exit_code = {1}
    /\ error_logged
    /\ TheValue(deployment_result).smoke_test_passed = {TRUE}
    /\ ret = {}

(***************************************************************************)
(* Notifications                                                           *)
(***************************************************************************)
(* C26: in every run that builds a report, dry run or not, the chat        *)
(* notification is sent exactly once, right after the report is built and  *)
(* so after every apply_optimization call; the email is sent at most once, *)
(* only after the chat notification returned, and only when the report's   *)
(* total_potential_savings is more than 1000 (not at exactly 1000).        *)
C26_NotificationOrder ==
    /\ slack_sent = Cardinality(CallsOf("send_slack_notification"))
    /\ email_sent = Cardinality(CallsOf("send_email"))
    /\ slack_sent <= 1
    /\ email_sent <= 1
    /\ (report # {} /\ pc # "send_slack") => slack_sent = 1
    /\ report = {} => (slack_sent = 0 /\ email_sent = 0)
    /\ \A s \in CallsOf("send_slack_notification") :
          /\ s > 1
          /\ calls[s - 1] = [op |-> "generate_report", ok |-> TRUE]
          /\ \A a \in CallsOf("apply_optimization") : a < s
    /\ \A e \in CallsOf("send_email") :
          /\ e > 1
          /\ calls[e - 1] = [op |-> "send_slack_notification", ok |-> TRUE]
          /\ report # {}
          /\ TheValue(report).optimization_summary.total_potential_savings
                > 1000

C26_Witness ==
    /\ ~dry_run
    /\ exit_code = {0}
    /\ apply_calls # <<>>
    /\ slack_sent = 1
    /\ email_sent = 1
    /\ TheValue(report).optimization_summary.total_potential_savings = 1300
    /\ calls[Len(calls)] = [op |-> "send_email", ok |-> TRUE]

====
